---- MODULE Spec2Model ----
(***************************************************************************)
(* Model of UAE_anthem/api/main.py: the in-memory job registry (JOBS,      *)
(* JOBS_LOCK), the per-job pipeline thread (_run_pipeline) and the HTTP    *)
(* handlers create_job, job_status and job_qr.                             *)
(*                                                                         *)
(* Scheduling.  The handlers are coroutines of one event loop: job_status  *)
(* and job_qr contain no await, so each runs to its response without any   *)
(* other handler running in between; create_job yields only at             *)
(* `await image.read` / `await image.close`.  Pipeline threads are         *)
(* ordinary threads and interleave with everything, statement by           *)
(* statement, except where JOBS_LOCK excludes them.                        *)
(*                                                                         *)
(* Heap.  JOBS maps a job id to a dict OBJECT.  The pipeline mutates the   *)
(* object made at line 171 in place (lines 187, 242-246) and on failure    *)
(* binds the id to a NEW object (line 250).  A handler keeps the reference *)
(* it fetched under the lock and reads the object's fields afterwards.     *)
(*                                                                         *)
(* Not modelled: the phone, started_at/completed_at/failed_at and          *)
(* video_path fields (no handler reads them), the quiz endpoints.          *)
(***************************************************************************)
EXTENDS Integers, Sequences, FiniteSets, TLC

\* ---------------------------------------------------------------- bounds
NumJobs == 2
JobIds == 1..NumJobs

\* ------------------------------------------------------------- constants
MAX_UPLOAD_SIZE_MB == 2
MAX_UPLOAD_SIZE == MAX_UPLOAD_SIZE_MB * 1024 * 1024
chunk_size == 1024 * 1024

AgeGroups == {"Male", "Female", "Boy", "Girl"}
ContentTypes == {"image/jpeg", "image/png"}

\* Inputs of create_job that the model enumerates.
AgeGroupInputs == {"Boy", "Adult"}
ContentTypeInputs == {"image/jpeg", "text/plain"}
SizeInputs == {MAX_UPLOAD_SIZE, MAX_UPLOAD_SIZE + 1}
\* Upload sizes around the chunk size and the limit, for the streaming loop.
UploadSizeInputs ==
  {0, 1, chunk_size, chunk_size + 1, MAX_UPLOAD_SIZE - 1, MAX_UPLOAD_SIZE,
   MAX_UPLOAD_SIZE + 1, MAX_UPLOAD_SIZE + chunk_size,
   MAX_UPLOAD_SIZE + chunk_size + 1}

\* Python's None, and the values an optional field takes otherwise.
None == <<>>
FinalVideoUrl(j) == <<"video_url", j>>
FinalImageUrl(j) == <<"image_url", j>>
QrUrl(j) == <<"/api/jobs/{job_id}/qr", j>>

\* Truthiness of a Python value (None and the empty string are falsy).
Truthy(v) == v # None

\* The dict objects a job can be bound to: "A" is the dict built at line 171,
\* "F" the dict built at line 250.  Unalloc marks an object not yet built.
Kinds == {"A", "F"}
Absent == "absent"
Unalloc == [status |-> "unalloc", video_url |-> None, image_url |-> None,
            error |-> None]
InitialJob == [status |-> "image", video_url |-> None, image_url |-> None,
               error |-> None]
\* Mutant of FailedJob: the failure path puts the job back to "image" (as
\* if to be retried) instead of marking it failed.
FailedJobRequeued(e) == [status |-> "image", video_url |-> None,
                         image_url |-> None, error |-> e]
FailedJob(e) == [status |-> "failed", video_url |-> None, image_url |-> None,
                 error |-> e]

NoReq == [ep |-> "none", id |-> 0]
NoResp == [code |-> 0, status |-> "none", error |-> None, media |-> FALSE,
           video_url |-> None, image_url |-> None, qr_url |-> None,
           png |-> None, jobs_active |-> 0, s3_status |-> "none"]
NoUpload == [age_group |-> "none", content_type |-> "none", size |-> 0]
\* healthz has no walk in progress.  `used` is the size of JOBS when the
\* iterator was made, `pos` the number of values it has yielded, `count`
\* the values kept so far; `active0` remembers how many jobs were active
\* when the request began.
NoHz == [used |-> 0, pos |-> 0, count |-> 0, active0 |-> 0]

VARIABLES
  USE_S3,     \* configuration, fixed at process start (line 34)
  JOBS,       \* job id -> Absent or the kind of dict object it is bound to
  heap,       \* <<job id, kind>> -> the dict object's fields
  JOBS_LOCK,  \* 0 when free, else the job id of the pipeline holding it
  order,      \* the keys of JOBS in insertion order (a dict iterates so)
  ppc,        \* pipeline thread of a job: its position in _run_pipeline
  exc,        \* the exception a pipeline is handling (None if none)
  log,        \* per job: what its pipeline has done so far, in order
  file,       \* per job: the temporary upload file
  cpc,        \* create_job request of a job slot: its position
  creq,       \* its form fields
  read,       \* its `read` local (bytes read so far)
  cresp,      \* its HTTP response code (0: none yet)
  hpc,        \* the running job_status/job_qr handler: its position
  hreq,       \* its endpoint and job_id argument
  hjob,       \* its `job` local: Absent or a reference <<job id, kind>>
  hseen,      \* the status the dict had when the handler fetched it
  hresp,      \* the response under construction, then the one returned
  hz,         \* healthz: the locals of its walk over JOBS.values()
  lastRep     \* per job id: the status the last finished poll reported

vars == <<USE_S3, JOBS, heap, JOBS_LOCK, order, ppc, exc, log, file, cpc,
          creq, read, cresp, hpc, hreq, hjob, hseen, hresp, hz, lastRep>>

registry == <<JOBS, heap, JOBS_LOCK, order>>
pipeline == <<ppc, exc, log>>
uploads  == <<cpc, creq, read, cresp>>
handler  == <<hpc, hreq, hjob, hseen, hresp, hz, lastRep>>

Init ==
  /\ USE_S3 \in BOOLEAN
  /\ JOBS = [j \in JobIds |-> Absent]
  /\ heap = [r \in JobIds \X Kinds |-> Unalloc]
  /\ JOBS_LOCK = 0
  /\ order = <<>>
  /\ ppc = [j \in JobIds |-> "unborn"]
  /\ exc = [j \in JobIds |-> None]
  /\ log = [j \in JobIds |-> <<>>]
  /\ file = [j \in JobIds |-> [exists |-> FALSE, written |-> 0]]
  /\ cpc = [j \in JobIds |-> "idle"]
  /\ creq = [j \in JobIds |-> NoUpload]
  /\ read = [j \in JobIds |-> 0]
  /\ cresp = [j \in JobIds |-> 0]
  /\ hpc = "idle"
  /\ hreq = NoReq
  /\ hjob = Absent
  /\ hseen = "none"
  /\ hresp = NoResp
  /\ hz = NoHz
  /\ lastRep = [j \in JobIds |-> "queued"]

\* ================================================================ create_job
\* The event loop runs one coroutine at a time: a create_job segment runs
\* only while no job_status/job_qr handler is in the middle of its body, and
\* no other create_job is between t.start() and its return.
LoopFree == hpc = "idle" /\ \A k \in JobIds : cpc[k] # "return"

\* Mutant of Validate: the content-type check of line 276 is missing.
ValidateAnyType(j, ag, ct, sz) ==
  /\ LoopFree
  /\ cpc[j] = "idle"
  /\ creq' = [creq EXCEPT ![j] = [age_group |-> ag, content_type |-> ct,
                                  size |-> sz]]
  /\ IF ag \notin AgeGroups
       THEN /\ cresp' = [cresp EXCEPT ![j] = 400]
            /\ cpc' = [cpc EXCEPT ![j] = "done"]
            /\ file' = file
       ELSE /\ cresp' = cresp
            /\ cpc' = [cpc EXCEPT ![j] = "stream"]
            /\ file' = [file EXCEPT ![j] = [exists |-> TRUE, written |-> 0]]
  /\ UNCHANGED <<USE_S3, registry, pipeline, read, handler>>

\* Lines 274-287: validation, job id, open(upload_path, "wb"); then the
\* coroutine waits in the first `await image.read`.
Validate(j, ag, ct, sz) ==
  /\ LoopFree
  /\ cpc[j] = "idle"
  /\ creq' = [creq EXCEPT ![j] = [age_group |-> ag, content_type |-> ct,
                                  size |-> sz]]
  /\ IF ag \notin AgeGroups \/ ct \notin ContentTypes
       THEN /\ cresp' = [cresp EXCEPT ![j] = 400]
            /\ cpc' = [cpc EXCEPT ![j] = "done"]
            /\ file' = file
       ELSE /\ cresp' = cresp
            /\ cpc' = [cpc EXCEPT ![j] = "stream"]
            /\ file' = [file EXCEPT ![j] = [exists |-> TRUE, written |-> 0]]
  /\ UNCHANGED <<USE_S3, registry, pipeline, read, handler>>

\* What `await image.read(chunk_size)` returns: the next at most chunk_size
\* bytes of the upload (its length; the model keeps no contents).
NextChunk(j) ==
  IF creq[j].size - read[j] < chunk_size THEN creq[j].size - read[j]
                                          ELSE chunk_size

\* Mutant of ReadChunk: the limit test is `read >= MAX_UPLOAD_SIZE`.
ReadChunkInclusive(j) ==
  /\ LoopFree
  /\ cpc[j] = "stream"
  /\ LET chunk == NextChunk(j) IN
       IF chunk = 0
         THEN /\ cpc' = [cpc EXCEPT ![j] = "spawn"]
              /\ UNCHANGED <<read, cresp, file>>
         ELSE /\ read' = [read EXCEPT ![j] = read[j] + chunk]
              /\ IF read[j] + chunk >= MAX_UPLOAD_SIZE
                   THEN /\ cresp' = [cresp EXCEPT ![j] = 413]
                        /\ cpc' = [cpc EXCEPT ![j] = "done"]
                        /\ file' = file
                   ELSE /\ file' = [file EXCEPT ![j].written = @ + chunk]
                        /\ UNCHANGED <<cresp, cpc>>
  /\ UNCHANGED <<USE_S3, registry, pipeline, creq, handler>>

\* Lines 288-297: one turn of the streaming loop.
ReadChunk(j) ==
  /\ LoopFree
  /\ cpc[j] = "stream"
  /\ LET chunk == NextChunk(j) IN
       IF chunk = 0
         THEN \* `if not chunk: break`, file closed, image closed
              /\ cpc' = [cpc EXCEPT ![j] = "spawn"]
              /\ UNCHANGED <<read, cresp, file>>
         ELSE /\ read' = [read EXCEPT ![j] = read[j] + chunk]
              /\ IF read[j] + chunk > MAX_UPLOAD_SIZE
                   THEN /\ cresp' = [cresp EXCEPT ![j] = 413]
                        /\ cpc' = [cpc EXCEPT ![j] = "done"]
                        /\ file' = file
                   ELSE /\ file' = [file EXCEPT ![j].written = @ + chunk]
                        /\ UNCHANGED <<cresp, cpc>>
  /\ UNCHANGED <<USE_S3, registry, pipeline, creq, handler>>

\* Mutant of Spawn: create_job removes its temporary file once the thread
\* has been started.
SpawnAndRemove(j) ==
  /\ LoopFree
  /\ cpc[j] = "spawn"
  /\ cpc' = [cpc EXCEPT ![j] = "return"]
  /\ ppc' = [ppc EXCEPT ![j] = "register"]
  /\ file' = [file EXCEPT ![j].exists = FALSE]
  /\ UNCHANGED <<USE_S3, registry, exc, log, creq, read, cresp, handler>>

\* Lines 300-305: t.start().
Spawn(j) ==
  /\ LoopFree
  /\ cpc[j] = "spawn"
  /\ cpc' = [cpc EXCEPT ![j] = "return"]
  /\ ppc' = [ppc EXCEPT ![j] = "register"]
  /\ UNCHANGED <<USE_S3, registry, exc, log, file, creq, read, cresp,
                 handler>>

\* Line 307: return {"job_id": job_id}.
Return(j) ==
  /\ hpc = "idle"
  /\ cpc[j] = "return"
  /\ cpc' = [cpc EXCEPT ![j] = "done"]
  /\ cresp' = [cresp EXCEPT ![j] = 200]
  /\ UNCHANGED <<USE_S3, registry, pipeline, file, creq, read, handler>>

\* ============================================================ _run_pipeline
SetField(j, f, v) == [heap EXCEPT ![<<j, "A">>][f] = v]
\* The log records a status written to the registry as <<"status", s>> and
\* an external step as <<step, outcome>>.
Logged(j, ev) == [log EXCEPT ![j] = Append(@, ev)]
\* Mutant of Raise: nothing catches the exception; the thread goes to its
\* cleanup and ends without recording the failure.
RaiseUncaught(j, e) == /\ exc' = [exc EXCEPT ![j] = e]
                       /\ ppc' = [ppc EXCEPT ![j] = "exists"]
\* raise: the except clause of line 248 is where the thread goes on.
Raise(j, e) == /\ exc' = [exc EXCEPT ![j] = e]
               /\ ppc' = [ppc EXCEPT ![j] = "except"]

\* Lines 170-179: with JOBS_LOCK: JOBS[job_id] = {"status": "image", ...}.
Register(j) ==
  /\ ppc[j] = "register"
  /\ JOBS_LOCK = 0
  /\ order' = Append(order, j)
  /\ JOBS' = [JOBS EXCEPT ![j] = "A"]
  /\ heap' = [heap EXCEPT ![<<j, "A">>] = InitialJob]
  /\ log' = Logged(j, <<"status", "image">>)
  /\ ppc' = [ppc EXCEPT ![j] = "image_gen"]
  /\ UNCHANGED <<USE_S3, JOBS_LOCK, exc, file, uploads, handler>>

\* Mutant of Step: a falsy result or an exception of the step is ignored
\* and the pipeline goes on.
StepSwallowed(j, at, name, r, next, e) ==
  /\ ppc[j] = at
  /\ log' = Logged(j, <<name, r>>)
  /\ ppc' = [ppc EXCEPT ![j] = next]
  /\ exc' = exc
  /\ UNCHANGED <<USE_S3, registry, file, uploads, handler>>

\* An external step of job j at position `at`: it is logged with its outcome
\* r; "ok" moves on to `next`, anything else raises e.
Step(j, at, name, r, next, e) ==
  /\ ppc[j] = at
  /\ log' = Logged(j, <<name, r>>)
  /\ IF r = "ok" THEN ppc' = [ppc EXCEPT ![j] = next] /\ exc' = exc
                 ELSE Raise(j, e)
  /\ UNCHANGED <<USE_S3, registry, file, uploads, handler>>

\* Lines 182-184: nano_banana_edit returns a URL, returns a falsy value
\* (raise RuntimeError("Image generation failed")), or raises.
ImageGen(j) ==
  \E r \in {"ok", "falsy", "raise"} :
    Step(j, "image_gen", "image", r, "set_video",
         IF r = "falsy" THEN <<"RuntimeError", "Image generation failed">>
                        ELSE <<"Exception", "nano_banana_edit">>)

\* Lines 186-187: with JOBS_LOCK: JOBS[job_id]["status"] = "video".
SetVideo(j) ==
  /\ ppc[j] = "set_video"
  /\ JOBS_LOCK = 0
  /\ heap' = SetField(j, "status", "video")
  /\ log' = Logged(j, <<"status", "video">>)
  /\ ppc' = [ppc EXCEPT ![j] = "video_gen"]
  /\ UNCHANGED <<USE_S3, order, JOBS, JOBS_LOCK, exc, file, uploads, handler>>

\* Mutant of VideoGen: the pipeline marks the job completed right after
\* the video generation, without fetching and storing the media.
VideoGenNoStore(j) ==
  \E r \in {"ok", "falsy", "raise"} :
    Step(j, "video_gen", "video", r, "line_242",
         IF r = "falsy" THEN <<"RuntimeError", "Video generation failed">>
                        ELSE <<"Exception", "wans2v">>)

\* Lines 190-192: wans2v returns a URL, returns a falsy value
\* (raise RuntimeError("Video generation failed")), or raises.
VideoGen(j) ==
  \E r \in {"ok", "falsy", "raise"} :
    Step(j, "video_gen", "video", r,
         IF USE_S3 THEN "store_orig" ELSE "store_image",
         IF r = "falsy" THEN <<"RuntimeError", "Video generation failed">>
                        ELSE <<"Exception", "wans2v">>)

\* Lines 198-204 (S3 only): upload the original from img_path; the upload
\* succeeds or raises.
StoreOrig(j) ==
  \E r \in {"ok", "raise"} :
    Step(j, "store_orig", "store_orig", r, "store_image",
         <<"S3UploadFailedError", "upload_file">>)

\* Lines 207-214 (S3) or 229 (_save_local_image): fetch the edited image and
\* store it; the fetch or the write may raise.
StoreImage(j) ==
  \E r \in {"ok", "raise"} :
    Step(j, "store_image", "store_image", r, "store_video",
         <<"HTTPError", "image fetch or store">>)

\* Lines 217-224 (S3) or 230-238 (_save_local_video and the URL strings):
\* fetch the video, store it, build final_video_url and final_image_url.
StoreVideo(j) ==
  \E r \in {"ok", "raise"} :
    Step(j, "store_video", "store_video", r, "line_242",
         <<"HTTPError", "video fetch or store">>)

\* Mutant of Line242: the lock covers only the status assignment and is
\* released before the URLs are recorded.
Line242Unlocked(j) ==
  /\ ppc[j] = "line_242"
  /\ JOBS_LOCK = 0
  /\ heap' = SetField(j, "status", "completed")
  /\ log' = Logged(j, <<"status", "completed">>)
  /\ ppc' = [ppc EXCEPT ![j] = "line_243"]
  /\ UNCHANGED <<USE_S3, order, JOBS, JOBS_LOCK, exc, file, uploads, handler>>

\* Lines 241-242: with JOBS_LOCK (acquire), then
\* JOBS[job_id]["status"] = "completed".  The lock stays held.
Line242(j) ==
  /\ ppc[j] = "line_242"
  /\ JOBS_LOCK = 0
  /\ JOBS_LOCK' = j
  /\ heap' = SetField(j, "status", "completed")
  /\ log' = Logged(j, <<"status", "completed">>)
  /\ ppc' = [ppc EXCEPT ![j] = "line_243"]
  /\ UNCHANGED <<USE_S3, order, JOBS, exc, file, uploads, handler>>

\* Line 243: JOBS[job_id]["video_url"] = final_video_url.
Line243(j) ==
  /\ ppc[j] = "line_243"
  /\ heap' = SetField(j, "video_url", FinalVideoUrl(j))
  /\ ppc' = [ppc EXCEPT ![j] = "line_244"]
  /\ UNCHANGED <<USE_S3, order, JOBS, JOBS_LOCK, exc, log, file, uploads,
                 handler>>

\* Lines 244-246: JOBS[job_id]["image_url"] = final_image_url, the two
\* fields no handler reads, and the release of JOBS_LOCK.
Line244(j) ==
  /\ ppc[j] = "line_244"
  /\ heap' = SetField(j, "image_url", FinalImageUrl(j))
  /\ JOBS_LOCK' = 0
  /\ ppc' = [ppc EXCEPT ![j] = "exists"]
  /\ UNCHANGED <<USE_S3, order, JOBS, exc, log, file, uploads, handler>>

\* The error string f"{type(e).__name__}: {e}".
ErrorText(e) == <<e[1], ": ", e[2]>>

\* Mutant of Except: the cleanup sits at the end of the try body instead of
\* in a finally clause, so the failure path ends without it.
ExceptNoCleanup(j) ==
  /\ ppc[j] = "except"
  /\ JOBS_LOCK = 0
  /\ JOBS' = [JOBS EXCEPT ![j] = "F"]
  /\ heap' = [heap EXCEPT ![<<j, "F">>] = FailedJob(ErrorText(exc[j]))]
  /\ log' = Logged(j, <<"status", "failed">>)
  /\ exc' = [exc EXCEPT ![j] = None]
  /\ ppc' = [ppc EXCEPT ![j] = "done"]
  /\ UNCHANGED <<USE_S3, order, JOBS_LOCK, file, uploads, handler>>

\* Mutant of Except: the failure path drops the job from the registry
\* (JOBS.pop(job_id)) instead of recording the failure.
ExceptPop(j) ==
  /\ ppc[j] = "except"
  /\ JOBS_LOCK = 0
  /\ JOBS' = [JOBS EXCEPT ![j] = Absent]
  /\ order' = SelectSeq(order, LAMBDA k : k # j)
  /\ log' = Logged(j, <<"status", "failed">>)
  /\ exc' = [exc EXCEPT ![j] = None]
  /\ ppc' = [ppc EXCEPT ![j] = "exists"]
  /\ UNCHANGED <<USE_S3, heap, JOBS_LOCK, file, uploads, handler>>

\* Lines 248-258: except Exception as e: with JOBS_LOCK: JOBS[job_id] = {...}
\* binds the id to a new dict; the old dict is left as it was.
Except(j) ==
  /\ ppc[j] = "except"
  /\ JOBS_LOCK = 0
  /\ JOBS' = [JOBS EXCEPT ![j] = "F"]
  /\ heap' = [heap EXCEPT ![<<j, "F">>] = FailedJob(ErrorText(exc[j]))]
  /\ log' = Logged(j, <<"status", "failed">>)
  /\ exc' = [exc EXCEPT ![j] = None]
  /\ ppc' = [ppc EXCEPT ![j] = "exists"]
  /\ UNCHANGED <<USE_S3, order, JOBS_LOCK, file, uploads, handler>>

\* Line 262: if os.path.exists(img_path).
Exists(j) ==
  /\ ppc[j] = "exists"
  /\ log' = Logged(j, <<"exists", file[j].exists>>)
  /\ ppc' = [ppc EXCEPT ![j] = IF file[j].exists THEN "remove" ELSE "done"]
  /\ UNCHANGED <<USE_S3, registry, exc, file, uploads, handler>>

\* Mutant of Remove: the cleanup sits inside the try body, so an exception
\* of os.remove reaches the except clause and the job is marked failed.
RemoveMarksFailed(j) ==
  /\ ppc[j] = "remove"
  /\ JOBS_LOCK = 0
  /\ \E r \in {"ok", "raise"} :
       /\ log' = Logged(j, <<"remove", r>>)
       /\ file' = IF r = "ok" THEN [file EXCEPT ![j].exists = FALSE] ELSE file
       /\ IF r = "ok"
            THEN UNCHANGED <<JOBS, heap>>
            ELSE /\ JOBS' = [JOBS EXCEPT ![j] = "F"]
                 /\ heap' = [heap EXCEPT ![<<j, "F">>] =
                               FailedJob(<<"OSError", ": ", "remove">>)]
  /\ ppc' = [ppc EXCEPT ![j] = "done"]
  /\ UNCHANGED <<USE_S3, order, JOBS_LOCK, exc, uploads, handler>>

\* Mutant of Remove: the cleanup empties the upload directory instead of
\* removing the task's own file.
RemoveAllUploads(j) ==
  /\ ppc[j] = "remove"
  /\ \E r \in {"ok", "raise"} :
       /\ log' = Logged(j, <<"remove", r>>)
       /\ file' = IF r = "ok"
                    THEN [k \in JobIds |-> [file[k] EXCEPT !.exists = FALSE]]
                    ELSE file
  /\ ppc' = [ppc EXCEPT ![j] = "done"]
  /\ UNCHANGED <<USE_S3, registry, exc, uploads, handler>>

\* Lines 263-265: os.remove(img_path) removes the file, or raises and the
\* exception is swallowed (except Exception: pass).
Remove(j) ==
  /\ ppc[j] = "remove"
  /\ \E r \in {"ok", "raise"} :
       /\ log' = Logged(j, <<"remove", r>>)
       /\ file' = IF r = "ok" THEN [file EXCEPT ![j].exists = FALSE] ELSE file
  /\ ppc' = [ppc EXCEPT ![j] = "done"]
  /\ UNCHANGED <<USE_S3, registry, exc, uploads, handler>>

Pipeline(j) ==
  \/ Register(j) \/ ImageGen(j) \/ SetVideo(j) \/ VideoGen(j)
  \/ StoreOrig(j) \/ StoreImage(j) \/ StoreVideo(j)
  \/ Line242(j) \/ Line243(j) \/ Line244(j)
  \/ Except(j) \/ Exists(j) \/ Remove(j)

\* ======================================================= job_status, job_qr
\* A field of the dict object a reference points to, as it is NOW (the
\* handlers read the fields after releasing the lock).
Field(ref, f) == heap[ref][f]

\* JOBS.get(job_id): None, or a reference to the dict the id is bound to.
JobsGet(j) == IF JOBS[j] = Absent THEN Absent ELSE <<j, JOBS[j]>>

\* Mutant of Lookup: the handler uses JOBS.setdefault, which registers a
\* queued placeholder for an id that is not in the registry.
LookupSetdefault(ep, j) ==
  /\ LoopFree
  /\ JOBS_LOCK = 0
  /\ hreq' = [ep |-> ep, id |-> j]
  /\ hjob' = <<j, IF JOBS[j] = Absent THEN "A" ELSE JOBS[j]>>
  /\ hseen' = IF JobsGet(j) = Absent THEN Absent
                                     ELSE Field(JobsGet(j), "status")
  /\ hpc' = IF ep = "status" THEN "line_314" ELSE "line_331"
  /\ JOBS' = [JOBS EXCEPT ![j] = IF @ = Absent THEN "A" ELSE @]
  /\ heap' = IF JOBS[j] = Absent
               THEN [heap EXCEPT ![<<j, "A">>] =
                       [InitialJob EXCEPT !.status = "queued"]]
               ELSE heap
  /\ order' = IF JOBS[j] = Absent THEN Append(order, j) ELSE order
  /\ UNCHANGED <<USE_S3, JOBS_LOCK, pipeline, file, uploads, hresp, hz,
                 lastRep>>

\* A request for endpoint ep and id j arrives; lines 311-312 and 328-329:
\* with JOBS_LOCK: job = JOBS.get(job_id).
Lookup(ep, j) ==
  /\ LoopFree
  /\ JOBS_LOCK = 0
  /\ hreq' = [ep |-> ep, id |-> j]
  /\ hjob' = JobsGet(j)
  /\ hseen' = IF JobsGet(j) = Absent THEN Absent
                                     ELSE Field(JobsGet(j), "status")
  /\ hpc' = IF ep = "status" THEN "line_314" ELSE "line_331"
  /\ UNCHANGED <<USE_S3, registry, pipeline, file, uploads, hresp, hz,
                 lastRep>>

\* The handler returns r: the response is on its way to the client.
Respond(r) ==
  /\ hresp' = r
  /\ hpc' = "responded"
  /\ UNCHANGED <<hreq, hjob, hseen, hz, lastRep>>

\* The handler goes on to position `next`.
Goto(next) ==
  /\ hpc' = next
  /\ UNCHANGED <<hreq, hjob, hseen, hresp, hz, lastRep>>

\* The client has the response and the handler's locals are gone; `seen` is
\* what the clients have been told last, per job id.
Delivered(seen) ==
  /\ hpc = "responded"
  /\ lastRep' = seen
  /\ hpc' = "idle"
  /\ hreq' = NoReq
  /\ hjob' = Absent
  /\ hseen' = "none"
  /\ hz' = NoHz
  /\ hresp' = NoResp
  /\ UNCHANGED <<USE_S3, registry, pipeline, file, uploads>>

\* The response is delivered.
Finish == Delivered(lastRep)

\* The response is delivered, and for a status poll the reported status is
\* remembered as the last one seen for that id (the observer of SpecPolled).
Observe ==
  Delivered(IF hreq.ep = "status"
              THEN [lastRep EXCEPT ![hreq.id] = hresp.status]
              ELSE lastRep)

\* Lines 314-317: the queued placeholder for a falsy job, else
\* resp = {"status": job["status"], "error": job.get("error")}.
Line314 ==
  /\ hpc = "line_314"
  /\ IF hjob = Absent
       THEN Respond([NoResp EXCEPT !.code = 200, !.status = "queued"])
       ELSE /\ hresp' = [NoResp EXCEPT !.code = 200,
                                       !.status = Field(hjob, "status"),
                                       !.error = Field(hjob, "error")]
            /\ hpc' = "line_319"
            /\ UNCHANGED <<hreq, hjob, hseen, hz, lastRep>>
  /\ UNCHANGED <<USE_S3, registry, pipeline, file, uploads>>

\* Line 319: if job["status"] == "completed" (a second read of the field).
Line319 ==
  /\ hpc = "line_319"
  /\ IF Field(hjob, "status") = "completed" THEN Goto("line_320")
                                            ELSE Respond(hresp)
  /\ UNCHANGED <<USE_S3, registry, pipeline, file, uploads>>

\* Line 320: resp["video_url"] = job.get("video_url").
Line320 ==
  /\ hpc = "line_320"
  /\ hresp' = [hresp EXCEPT !.video_url = Field(hjob, "video_url")]
  /\ hpc' = "line_321"
  /\ UNCHANGED <<USE_S3, registry, pipeline, file, uploads, hreq, hjob,
                 hseen, hz, lastRep>>

\* Lines 321-324: resp["image_url"], resp["qr_url"], return resp.
Line321 ==
  /\ hpc = "line_321"
  /\ Respond([hresp EXCEPT !.media = TRUE,
                           !.image_url = Field(hjob, "image_url"),
                           !.qr_url = QrUrl(hreq.id)])
  /\ UNCHANGED <<USE_S3, registry, pipeline, file, uploads>>

\* raise HTTPException(404, detail="QR not available").
QrNotAvailable == [NoResp EXCEPT !.code = 404]

\* Line 331, first two disjuncts: not job or job.get("status") != "completed".
Line331 ==
  /\ hpc = "line_331"
  /\ IF hjob = Absent \/ Field(hjob, "status") # "completed"
       THEN Respond(QrNotAvailable)
       ELSE Goto("line_331c")
  /\ UNCHANGED <<USE_S3, registry, pipeline, file, uploads>>

\* Mutant of Line331c: the `or not job.get("video_url")` test is missing.
Line331cUnchecked ==
  /\ hpc = "line_331c"
  /\ Goto("line_335")
  /\ UNCHANGED <<USE_S3, registry, pipeline, file, uploads>>

\* Line 331, third disjunct: or not job.get("video_url").
Line331c ==
  /\ hpc = "line_331c"
  /\ IF ~Truthy(Field(hjob, "video_url")) THEN Respond(QrNotAvailable)
                                          ELSE Goto("line_335")
  /\ UNCHANGED <<USE_S3, registry, pipeline, file, uploads>>

\* Lines 335-344: generate_qr_code(job["video_url"]) (a third read of the
\* dict) and the PNG response; png is the string the image encodes.
Line335 ==
  /\ hpc = "line_335"
  /\ Respond([NoResp EXCEPT !.code = 200,
                            !.png = Field(hjob, "video_url")])
  /\ UNCHANGED <<USE_S3, registry, pipeline, file, uploads>>

\* The jobs that have been submitted and whose pipeline has neither
\* completed nor failed, registered or not yet.
Active ==
  {j \in JobIds : /\ ppc[j] # "unborn"
                  /\ \/ JOBS[j] = Absent
                     \/ heap[<<j, JOBS[j]>>].status \in {"image", "video"}}

\* A request for /healthz arrives; line 389, JOBS.values() and the start of
\* the comprehension: the iterator remembers the size of the dict.  No lock
\* is taken.
HealthzBegin ==
  /\ LoopFree
  /\ hreq' = [ep |-> "healthz", id |-> 0]
  /\ hz' = [used |-> Len(order), pos |-> 0, count |-> 0,
            active0 |-> Cardinality(Active)]
  /\ hpc' = "line_389"
  /\ UNCHANGED <<USE_S3, registry, pipeline, file, uploads, hjob, hseen,
                 hresp, lastRep>>

\* Lines 391-400: with USE_S3, s3.head_bucket succeeds or raises, and the
\* exception is caught; the outcomes of s3_status.
S3Status == IF USE_S3 THEN {"connected", "error"} ELSE {"none"}

\* Line 389, the iterator's next: RuntimeError (a 500 response) when the
\* dict has changed size since the iterator was made, else the next value
\* in insertion order, else the end of the walk, len(...) and lines
\* 391-402.
Line389 ==
  /\ hpc = "line_389"
  /\ IF Len(order) # hz.used
       THEN Respond([NoResp EXCEPT !.code = 500])
       ELSE IF hz.pos < hz.used
         THEN /\ hjob' = JobsGet(order[hz.pos + 1])
              /\ hz' = [hz EXCEPT !.pos = @ + 1]
              /\ hpc' = "line_389_if"
              /\ UNCHANGED <<hreq, hseen, hresp, lastRep>>
         ELSE /\ \E s \in S3Status :
                   hresp' = [NoResp EXCEPT !.code = 200,
                                           !.jobs_active = hz.count,
                                           !.s3_status = s]
              /\ hpc' = "responded"
              /\ UNCHANGED <<hreq, hjob, hseen, hz, lastRep>>
  /\ UNCHANGED <<USE_S3, registry, pipeline, file, uploads>>

\* Line 389, the filter: if j["status"] in {"image", "video"}.
Line389If ==
  /\ hpc = "line_389_if"
  /\ hz' = [hz EXCEPT !.count =
              IF Field(hjob, "status") \in {"image", "video"} THEN @ + 1
                                                               ELSE @]
  /\ hpc' = "line_389"
  /\ UNCHANGED <<USE_S3, registry, pipeline, file, uploads, hreq, hjob,
                 hseen, hresp, lastRep>>

Healthz == HealthzBegin \/ Line389 \/ Line389If

Handler ==
  \/ \E ep \in {"status", "qr"}, j \in JobIds : Lookup(ep, j)
  \/ Line314 \/ Line319 \/ Line320 \/ Line321
  \/ Line331 \/ Line331c \/ Line335

\* create_job, for submissions with an upload size in `sizes`.
CreateJob(sizes) ==
  \/ \E j \in JobIds, ag \in AgeGroupInputs, ct \in ContentTypeInputs,
        sz \in sizes : Validate(j, ag, ct, sz)
  \/ \E j \in JobIds : ReadChunk(j)
  \/ \E j \in JobIds : Spawn(j)
  \/ \E j \in JobIds : Return(j)

\* The submissions and the pipeline threads they start.
Tasks ==
  \/ CreateJob(SizeInputs)
  \/ \E j \in JobIds : Pipeline(j)

Program == Tasks \/ Handler

Next == Program \/ Finish

Spec == Init /\ [][Next]_vars

\* The same program, with an observer that remembers what each status poll
\* reported.
NextPolled == Program \/ Observe

SpecPolled == Init /\ [][NextPolled]_vars

\* The program under fair scheduling: a thread that can take a step
\* eventually takes one, and every external call it makes returns or
\* raises.  Requests and submissions are the clients' choice.
Fairness == \A j \in JobIds : WF_vars(Pipeline(j))

\* Requests only read the registry, under a lock they hold for one
\* statement, so the threads are checked with the submissions alone.
SpecFair == Init /\ [][Tasks]_vars /\ Fairness

\* create_job alone, with uploads of many sizes.
NextUpload == CreateJob(UploadSizeInputs)

SpecUpload == Init /\ [][NextUpload]_vars

\* The same program, with the health check among its requests.
NextHealth == Program \/ Healthz \/ Finish

SpecHealth == Init /\ [][NextHealth]_vars

\* =============================================================== properties
Terminal == {"completed", "failed"}

\* The dict a job id is bound to in the registry, and its status.
Entry(j) == heap[<<j, JOBS[j]>>]
Status(j) == IF JOBS[j] = Absent THEN Absent ELSE Entry(j).status

\* The order of the statuses a poll can report.
Rank(s) == CASE s = "queued" -> 0
             [] s = "image" -> 1
             [] s = "video" -> 2
             [] s \in Terminal -> 3

\* The statuses written to a job's registry entry so far, in order.
IsStatus(ev) == ev[1] = "status"
Passed(j) == [i \in 1..Len(SelectSeq(log[j], IsStatus)) |->
                SelectSeq(log[j], IsStatus)[i][2]]

\* How often a pipeline has invoked the step `name`.
Count(j, name) == Cardinality({i \in 1..Len(log[j]) : log[j][i][1] = name})

\* The external steps of a pipeline, and the log entry of one that failed.
ExternalSteps == {"image", "video", "store_orig", "store_image",
                  "store_video"}
Failure(ev) == ev[1] \in ExternalSteps /\ ev[2] # "ok"
HasFailure(j) == \E i \in 1..Len(log[j]) : Failure(log[j][i])

StatusResponse == hpc = "responded" /\ hreq.ep = "status"
QrResponse == hpc = "responded" /\ hreq.ep = "qr"

\* C1: once create_job has returned the job id (response 200), every status
\* poll for that id reports image, video, completed or failed, never the
\* queued placeholder.  (Handlers of the one event loop run one after the
\* other, so a poll that responds while cresp[id] = 200 began after the
\* return.)
C1_PollAfterReturnNeverQueued ==
  (StatusResponse /\ cresp[hreq.id] = 200)
    => hresp.status \in {"image", "video", "completed", "failed"}

\* C2: the statuses successive polls of one job id report never decrease in
\* the order queued < image < video < {completed, failed}, and completed is
\* reported only for a job whose registry status went image, video,
\* completed.
C2_PolledStatusNeverRegresses ==
  StatusResponse =>
    /\ Rank(hresp.status) >= Rank(lastRep[hreq.id])
    /\ hresp.status = "completed"
         => Passed(hreq.id) = <<"image", "video", "completed">>

\* C2 witness: a poll reports completed for a job whose previous poll
\* reported video.
C2_Witness ==
  StatusResponse /\ hresp.status = "completed" /\ lastRep[hreq.id] = "video"

\* C3: completed and failed are terminal: no step changes the status of a
\* registry entry that is completed or failed.
C3_TerminalStatusNeverChanges ==
  [][\A j \in JobIds : Status(j) \in Terminal => Status(j)' = Status(j)]_vars

\* C3 witness: one job failed from image, the other from video, and both
\* pipelines ran on to their end.
C3_Witness ==
  \E j, k \in JobIds :
    /\ Passed(j) = <<"image", "failed">> /\ ppc[j] = "done"
    /\ Passed(k) = <<"image", "video", "failed">> /\ ppc[k] = "done"

\* C4: whenever JOBS_LOCK is free (the states a reader holding the lock can
\* see), a completed job has both video_url and image_url set; and a
\* pipeline that is handling a failure has not marked its job completed.
C4_CompletedHasBothUrls ==
  \A j \in JobIds :
    /\ (JOBS_LOCK = 0 /\ Status(j) = "completed")
         => Truthy(Entry(j).video_url) /\ Truthy(Entry(j).image_url)
    /\ (ppc[j] = "except" \/ HasFailure(j)) => Status(j) # "completed"

\* C4 witness: the lock is free and a job is completed, while the other
\* job failed in a media fetch or store.
C4_Witness ==
  \E j, k \in JobIds :
    /\ JOBS_LOCK = 0 /\ Status(j) = "completed"
    /\ \E i \in 1..Len(log[k]) :
         log[k][i] \in {<<"store_image", "raise">>, <<"store_video", "raise">>}

\* C5: every job_status response carries the media fields (video_url,
\* image_url, qr_url) exactly when its status is completed, and then both
\* URLs are non-null.
C5_StatusResponseConsistent ==
  StatusResponse =>
    /\ hresp.media <=> hresp.status = "completed"
    /\ hresp.status = "completed"
         => Truthy(hresp.video_url) /\ Truthy(hresp.image_url)

\* C5 example of the divergence: a response that reports completed with a
\* null video_url.
C5_TornResponse ==
  StatusResponse /\ hresp.status = "completed" /\ ~Truthy(hresp.video_url)

\* C6: job_qr answers 404 or a PNG.  It answers 404 when the id was absent
\* from the registry, and whenever the job is not completed or has no video
\* URL when the response is made; it answers with a PNG when the job it
\* fetched was completed; and a PNG always encodes the job's non-empty video
\* URL, as the registry holds it.
C6_QrOnlyForCompleted ==
  QrResponse =>
    /\ hresp.code \in {200, 404}
    /\ hresp.code = 404 => hresp.png = None
    /\ hseen = Absent => hresp.code = 404
    /\ Status(hreq.id) # "completed" => hresp.code = 404
    /\ hseen = "completed" => hresp.code = 200
    /\ hresp.code = 200 =>
         /\ Truthy(hresp.png)
         /\ hresp.png = FinalVideoUrl(hreq.id)
         /\ Status(hreq.id) = "completed"
         /\ hresp.png = Entry(hreq.id).video_url

\* C6 witness: a PNG is returned by a handler that fetched the job before
\* it was completed (the pipeline completed it while the handler ran).
C6_Witness ==
  QrResponse /\ hresp.code = 200 /\ hseen = "video"

\* C7: a submission answered 400 or 413 has no pipeline thread, no registry
\* entry and no job id; an otherwise valid submission above the size limit
\* is answered 413, one with a content type outside the allow-list or a
\* category outside the enumerated set 400; and only a valid submission
\* within the limit ever gets a thread or a registry entry.
ValidUpload(j) ==
  /\ creq[j].age_group \in AgeGroups
  /\ creq[j].content_type \in ContentTypes
C7_RejectedCreatesNoJob ==
  \A j \in JobIds :
    /\ cresp[j] \in {0, 200, 400, 413}
    /\ cresp[j] \in {400, 413} =>
         /\ cpc[j] = "done" /\ ppc[j] = "unborn"
         /\ JOBS[j] = Absent /\ log[j] = <<>>
    /\ cpc[j] = "done" =>
         /\ creq[j].content_type \notin ContentTypes => cresp[j] = 400
         /\ creq[j].age_group \notin AgeGroups => cresp[j] = 400
         /\ (ValidUpload(j) /\ creq[j].size > MAX_UPLOAD_SIZE)
              => cresp[j] = 413
    /\ (ppc[j] # "unborn" \/ JOBS[j] # Absent) =>
         ValidUpload(j) /\ creq[j].size <= MAX_UPLOAD_SIZE

\* C7 witness: one submission was answered 413 and another 400 (for its
\* content type), and no request is in progress.
C7_Witness ==
  \E j, k \in JobIds :
    /\ cresp[j] = 413 /\ creq[j].size > MAX_UPLOAD_SIZE
    /\ cresp[k] = 400 /\ creq[k].content_type \notin ContentTypes
    /\ creq[k].age_group \in AgeGroups

\* The last n entries of a job's log.
LastOf(j, n) == SubSeq(log[j], Len(log[j]) - n + 1, Len(log[j]))

\* C8 as stated: after a pipeline task has finished, its upload file has
\* been deleted exactly once and no longer exists.
C8_FileGoneAfterTask ==
  \A j \in JobIds :
    ppc[j] = "done" => ~file[j].exists /\ Count(j, "remove") = 1

\* C8 amended: on every exit path the task tests for the file once and
\* calls os.remove once, after the job's terminal status was written; the
\* file is gone afterwards unless os.remove itself raised, and in that case
\* the task still finishes with the job's status as it was.
C8_RemoveAttemptedOnce ==
  \A j \in JobIds :
    /\ Count(j, "exists") <= 1 /\ Count(j, "remove") <= 1
    /\ ppc[j] = "done" =>
         /\ Len(log[j]) >= 3
         /\ LastOf(j, 2)[1] = <<"exists", TRUE>>
         /\ LastOf(j, 2)[2][1] = "remove"
         /\ LastOf(j, 3)[1] = <<"status", Status(j)>>
         /\ Status(j) \in Terminal
         /\ file[j].exists <=> LastOf(j, 2)[2] = <<"remove", "raise">>

\* C8 witness: a task failed at video generation, its os.remove raised, and
\* another task completed and removed its file.
C8_Witness ==
  \E j, k \in JobIds :
    /\ ppc[j] = "done" /\ Status(j) = "failed" /\ file[j].exists
    /\ <<"video", "falsy">> \in {log[j][i] : i \in 1..Len(log[j])}
    /\ ppc[k] = "done" /\ Status(k) = "completed" /\ ~file[k].exists

\* C9: a step that returned a falsy result or raised is the last external
\* step of its pipeline (no retry, no later step, no completion); the job
\* is then marked failed with a non-null error and null video_url and
\* image_url; every external step is invoked at most once; and create_job
\* answers such a job with its job id, never with the error.
C9_FailureEndsJob ==
  \A j \in JobIds :
    /\ \A n \in ExternalSteps : Count(j, n) <= 1
    /\ \A i \in 1..Len(log[j]) :
         Failure(log[j][i]) =>
           \A k \in (i + 1)..Len(log[j]) :
             log[j][k] \in {<<"status", "failed">>, <<"exists", TRUE>>,
                            <<"remove", "ok">>, <<"remove", "raise">>}
    /\ HasFailure(j) =>
         /\ cresp[j] \in {0, 200}
         /\ \/ ppc[j] = "except" /\ Truthy(exc[j])
            \/ /\ ppc[j] \in {"exists", "remove", "done"}
               /\ Status(j) = "failed"
               /\ Truthy(Entry(j).error)
               /\ Entry(j).video_url = None
               /\ Entry(j).image_url = None
    /\ Status(j) = "failed" => HasFailure(j)

\* C9 witness: a job failed in the image fetch/store after both generation
\* calls succeeded, its task has finished and create_job answered 200.
C9_Witness ==
  \E j \in JobIds :
    /\ Status(j) = "failed" /\ ppc[j] = "done" /\ cresp[j] = 200
    /\ <<"store_image", "raise">> \in {log[j][i] : i \in 1..Len(log[j])}
    /\ Entry(j).error = <<"HTTPError", ": ", "image fetch or store">>

\* C10: a status request for an id that is not in the registry is answered
\* with the queued placeholder and a QR request with 404, and no step of
\* job_status or job_qr changes the registry (JOBS or any dict in it).
C10_HandlersReadOnly ==
  /\ [](hpc = "responded" /\ hseen = Absent =>
          IF hreq.ep = "status"
            THEN hresp.code = 200 /\ hresp.status = "queued" /\ ~hresp.media
            ELSE hresp.code = 404)
  /\ [][hpc' # hpc => UNCHANGED <<JOBS, heap>>]_vars

\* C10 witness: the queued placeholder is returned for an id no submission
\* ever used, while another job is in the registry.
C10_Witness ==
  /\ StatusResponse /\ hseen = Absent /\ hresp.status = "queued"
  /\ cpc[hreq.id] = "idle"
  /\ \E k \in JobIds : JOBS[k] # Absent

\* A /healthz response with status code 200.
HealthResponse ==
  hpc = "responded" /\ hreq.ep = "healthz" /\ hresp.code = 200

\* C11: the jobs_active value of a health response is the number of
\* submitted jobs whose pipeline has neither completed nor failed, jobs
\* that are spawned but not yet registered included; a job that ends while
\* the request is served may or may not be counted, so the value lies
\* between the number at the response and the number at the start.
C11_JobsActiveCountsNonTerminal ==
  HealthResponse =>
    /\ Cardinality(Active) <= hresp.jobs_active
    /\ hresp.jobs_active <= hz.active0

\* healthz is in the middle of its walk over the registry.
Walking == hpc \in {"line_389", "line_389_if"}

\* C12: every read and write of the registry is done under JOBS_LOCK for
\* its whole critical section, so while a handler walks over or reads the
\* registry no pipeline task inserts, replaces or modifies an entry, and
\* none is inside its own critical section: the registry and the lock stay
\* as they are from the start of the walk to its end.
C12_RegistryAccessUnderLock == [][Walking => UNCHANGED registry]_vars

\* The log of job j has the event <<name, out>> before position i.
Before(j, name, out, i) ==
  \E a \in 1..(i - 1) : log[j][a][1] = name /\ log[j][a][2] = out

StoreSteps == {"store_orig", "store_image", "store_video"}

\* C13: within one job the steps are sequential.  The video generation is
\* invoked only after the image generation returned a truthy URL and the
\* status was then set to video; a fetch/store step starts only after the
\* video generation returned a truthy URL; the status becomes completed
\* only after the image and the video have been stored; and each of the
\* two generation calls is invoked at most once.
C13_StepsSequential ==
  \A j \in JobIds :
    /\ Count(j, "image") <= 1
    /\ Count(j, "video") <= 1
    /\ \A i \in 1..Len(log[j]) :
         /\ log[j][i][1] = "video" =>
              \E b \in 1..(i - 1) :
                /\ log[j][b][1] = "status" /\ log[j][b][2] = "video"
                /\ Before(j, "image", "ok", b)
         /\ log[j][i][1] \in StoreSteps => Before(j, "video", "ok", i)
         /\ (log[j][i][1] = "status" /\ log[j][i][2] = "completed") =>
              /\ Before(j, "store_image", "ok", i)
              /\ Before(j, "store_video", "ok", i)

\* C13 witness: with object storage a job has gone through every step and
\* is completed, while another job has only had its image generated.
C13_Witness ==
  /\ USE_S3
  /\ \E j, k \in JobIds :
       /\ Status(j) = "completed" /\ Count(j, "store_orig") = 1
       /\ Count(j, "image") = 1 /\ Count(j, "video") = 1
       /\ Status(k) = "image" /\ Count(k, "image") = 1

\* C14: under fair scheduling, with every external call returning or
\* raising, every spawned pipeline task brings its job to completed or
\* failed (no job stays in image or video forever), and an exception in
\* the pipeline body is recorded as failed.
C14_EveryTaskEnds ==
  \A j \in JobIds :
    /\ (ppc[j] # "unborn") ~> (Status(j) \in Terminal)
    /\ (ppc[j] = "except") ~> (Status(j) = "failed")

\* C14 witness: one task has failed on an exception of the video generation
\* and has ended, another has completed and ended.
C14_Witness ==
  \E j, k \in JobIds :
    /\ ppc[j] = "done" /\ Status(j) = "failed"
    /\ \E i \in 1..Len(log[j]) :
         log[j][i][1] = "video" /\ log[j][i][2] = "raise"
    /\ ppc[k] = "done" /\ Status(k) = "completed"

\* The step writes the registry entry of job k or deletes its upload file.
Touches(k) ==
  \/ JOBS'[k] # JOBS[k]
  \/ \E kind \in Kinds : heap'[<<k, kind>>] # heap[<<k, kind>>]
  \/ file[k].exists /\ ~file'[k].exists

\* The step is a step of the pipeline task of job k.
TaskStep(k) == ppc[k] \notin {"unborn", "done"} /\ ppc'[k] # ppc[k]

\* C15: each accepted submission spawns exactly one pipeline task (a task
\* exists for an id iff create_job accepted the submission, it is started
\* once and registers the job once), and a job's registry entry is created,
\* modified or replaced, and its upload file deleted, only by a step of
\* that job's own task, whatever the other jobs are doing.
C15_OnlyOwnTaskWrites ==
  /\ [](\A k \in JobIds :
          /\ ppc[k] # "unborn" <=> cpc[k] \in {"return", "done"}
                                     /\ cresp[k] \in {0, 200}
          /\ Cardinality({i \in 1..Len(log[k]) :
                            log[k][i][1] = "status"
                            /\ log[k][i][2] = "image"}) <= 1)
  /\ [][\A k \in JobIds :
          /\ Touches(k) => TaskStep(k)
          /\ (ppc'[k] = "register" /\ ppc[k] # "register")
               => ppc[k] = "unborn" /\ cpc[k] = "spawn"]_vars

\* C15 witness: two jobs run at once; the task of one has failed, replaced
\* its entry and removed its own file, while the other is at the video
\* generation with its entry and its file in place.
C15_Witness ==
  \E j, k \in JobIds :
    /\ ppc[j] = "done" /\ JOBS[j] = "F" /\ ~file[j].exists
    /\ ppc[k] = "video_gen" /\ Status(k) = "video" /\ file[k].exists

\* C16: no job is ever removed.  An id that is in the registry stays in it
\* over every step (submissions, pipeline steps, failures, polls), and the
\* failure path leaves the id bound to the failure dict.
C16_NoJobRemoved ==
  [][/\ \A j \in JobIds : JOBS[j] # Absent => JOBS'[j] # Absent
     /\ \A j \in JobIds :
          (ppc[j] = "except" /\ ppc'[j] # "except") => JOBS'[j] = "F"]_vars

\* C16 witness: a job has failed and ended, its id is still in the registry
\* with the failure dict, and a status poll for it is answered from it.
C16_Witness ==
  /\ StatusResponse /\ hresp.status = "failed"
  /\ ppc[hreq.id] = "done" /\ JOBS[hreq.id] = "F"
  /\ \E k \in JobIds : k # hreq.id /\ JOBS[k] = "A"

\* create_job has streamed the whole upload of j and gone on to spawn.
Accepted(j) == cpc[j] \in {"spawn", "return"} \/ cresp[j] = 200

\* C17: the size limit is enforced in mid-stream on the running total.  A
\* submission (with a valid category and content type) is answered 413 iff
\* its size is strictly greater than MAX_UPLOAD_SIZE, so one of exactly
\* MAX_UPLOAD_SIZE bytes is accepted and is written whole; the chunk that
\* takes the total over the limit is not written; and the temporary file
\* never holds more than MAX_UPLOAD_SIZE bytes.
C17_LimitEnforcedMidStream ==
  \A j \in JobIds :
    /\ file[j].written <= MAX_UPLOAD_SIZE
    /\ file[j].written <= read[j]
    /\ cresp[j] = 413 =>
         /\ creq[j].size > MAX_UPLOAD_SIZE
         /\ read[j] > MAX_UPLOAD_SIZE
         /\ file[j].written < read[j]
         /\ read[j] - file[j].written <= chunk_size
    /\ Accepted(j) =>
         /\ creq[j].size <= MAX_UPLOAD_SIZE
         /\ file[j].written = creq[j].size
    /\ (cpc[j] = "done" /\ ValidUpload(j)) =>
         (cresp[j] = 413 <=> creq[j].size > MAX_UPLOAD_SIZE)

\* C17 witness: an upload of exactly MAX_UPLOAD_SIZE bytes has been
\* accepted and written whole, and one of a byte more has been rejected
\* with 413 after MAX_UPLOAD_SIZE bytes were written.
C17_Witness ==
  \E j, k \in JobIds :
    /\ cresp[j] = 200 /\ creq[j].size = MAX_UPLOAD_SIZE
    /\ file[j].written = MAX_UPLOAD_SIZE
    /\ cresp[k] = 413 /\ creq[k].size = MAX_UPLOAD_SIZE + 1
    /\ file[k].written = MAX_UPLOAD_SIZE /\ read[k] = MAX_UPLOAD_SIZE + 1

\* C18: every temporary upload file that create_job writes is removed.
\* Once a submission has been rejected with 413 in mid-stream, or its
\* pipeline task has finished, no temporary file of it is left.
C18_NoUploadFileLeft ==
  \A j \in JobIds :
    (cresp[j] = 413 \/ ppc[j] = "done") => ~file[j].exists

\* The steps of a pipeline that read the upload file.
ReadsUpload == {"image", "store_orig"}

\* C19: a job's upload file is deleted only after the job's registry
\* status is terminal.  While the status is image or video, or the task is
\* spawned and the job not yet registered, the file exists; the step that
\* deletes it finds the status completed or failed; and the image
\* generation and the S3 upload of the original run with the file there.
C19_FileKeptUntilTerminal ==
  /\ [](\A j \in JobIds :
          (ppc[j] # "unborn" /\ Status(j) \in {Absent, "image", "video"})
            => file[j].exists)
  /\ [][\A j \in JobIds :
          /\ (file[j].exists /\ ~file'[j].exists) => Status(j) \in Terminal
          /\ (Len(log'[j]) > Len(log[j])
              /\ log'[j][Len(log'[j])][1] \in ReadsUpload)
               => file[j].exists]_vars

\* C19 witness: with object storage a job in status video has just had its
\* original uploaded from the file, which is still there, while the other
\* job has ended and its file is gone.
C19_Witness ==
  /\ USE_S3
  /\ \E j, k \in JobIds :
       /\ ppc[j] = "store_image" /\ Status(j) = "video" /\ file[j].exists
       /\ Count(j, "store_orig") = 1
       /\ ppc[k] = "done" /\ ~file[k].exists
====
